---- MODULE Spec2Model ----
(***************************************************************************)
(* Model of main.py: the daily carousel generator.  One run of the script  *)
(* loads topics.json, selects the topic of the day, renders one PNG per    *)
(* slide text into output/carousel_<date>/, zips that directory, composes  *)
(* the captions and optionally mails the slides; the __main__ block turns   *)
(* any exception into exit code 1.  The file system persists across runs.  *)
(***************************************************************************)
EXTENDS Integers, Sequences, FiniteSets, TLC

(* ----------------------------- bounds -------------------------------- *)
MaxTopics == 2      \* longest topic list read from topics.json
MaxSlides == 2      \* longest slide list of a topic
MaxDay    == 2      \* last day ordinal the clock reaches
MaxRuns   == 2      \* number of runs of the script
MaxTags   == 2      \* longest hashtag list (caption specification)
MaxCompose == 2     \* calls of compose_captions on one topic (caption specification)

(* ------------------------ program constants -------------------------- *)
OUT_BASE   == <<"output">>
SLIDE_SIZE == <<1080, 1080>>
padding    == 60
header_h   == 160
DEFAULT_TITLE == "AI for MSMEs"
CTA_TEXT   == "Email for template: arunksurana@gmail.com"

(* ------------------------- dictionaries ------------------------------ *)
\* A JSON object is a function from its keys; d.get(k, default).
Get(d, k, default) == IF k \in DOMAIN d THEN d[k] ELSE default
EmptyDict == [k \in {} |-> ""]

(* ----------------------------- paths --------------------------------- *)
\* A path is the sequence of its components.
Join(dir, name) == Append(dir, name)
Basename(p)     == p[Len(p)]
Parent(p)       == SubSeq(p, 1, Len(p) - 1)
\* date.isoformat(): an injective rendering of the day as text.
Iso(d)          == "day-" \o ToString(d)
OutDirOf(today) == Join(OUT_BASE, "carousel_" \o Iso(today))
ZipPathOf(today) == Join(OUT_BASE, "carousel_" \o Iso(today) \o ".zip")
SlideName(i)    == "slide_" \o ToString(i) \o ".png"

(* ------------------------ inputs of a run ---------------------------- *)
SlideText(k) == "text" \o ToString(k)
SlideList(n) == [k \in 1..n |-> SlideText(k)]
Titles == {"T"}
RunTopics ==
       { [title |-> t, slides |-> SlideList(n)] : t \in Titles, n \in 0..MaxSlides }
  \cup { [slides |-> SlideList(MaxSlides)] }   \* no "title" key
  \cup { [title |-> t] : t \in Titles }       \* no "slides" key
TopicLists == UNION { [1..n -> RunTopics] : n \in 0..MaxTopics }
\* What open()/json.load find at topics.json: nothing, garbage, or a list.
FileStates == { [kind |-> "missing", data |-> <<>>],
                [kind |-> "malformed", data |-> <<>>] }
         \cup { [kind |-> "json", data |-> l] : l \in TopicLists }
\* os.environ.get(name): <<>> when unset, else <<value>>.
EnvVals == { <<>>, <<"">>, <<"v">> }
Truthy(v) == Len(v) = 1 /\ v[1] # ""

VARIABLES
  date,       \* the clock: today's day ordinal
  runs,       \* runs of the script started so far
  pc,         \* position of the current run
  sendFlag,   \* args.send_email
  topics,     \* main: topics
  idx,        \* main: idx
  topic,      \* main: topic
  today,      \* generate_carousel: today
  slides,     \* generate_carousel: slides
  i,          \* generate_carousel: loop index
  files,      \* generate_carousel: files
  calls,      \* the render_slide calls of this run, in order
  captions,   \* the results compose_captions has returned
  disk,       \* the file system below output/
  log,        \* the side effects of this run, in order
  exitCode,   \* the process exit status, -1 while running
  error,      \* the exception that ended the run, "" if none
  input,      \* what load_topics found at topics.json, "" before it looked
  env,        \* main: <<user, app_password, recipient>>
  lastSel     \* <<day, topic count, index>> of the latest selection

vars == << date, runs, pc, sendFlag, topics, idx, topic, today, slides, i,
           files, calls, captions, disk, log, exitCode, error, input, env,
           lastSel >>

Event(op, arg) == [op |-> op, arg |-> arg]
Did(op) == \E k \in 1..Len(log) : log[k].op = op
Count(op) == Cardinality({ k \in 1..Len(log) : log[k].op = op })

(* --------------------------- pure pieces ----------------------------- *)
\* Variant: the day counted from zero.
SelectIndex_ZeroBasedDay(ordinal, n) == (ordinal - 1) % n

\* main, line 123: idx = today.toordinal() % len(topics)
SelectIndex(ordinal, n) == ordinal % n

\* Variant: every slide is given the topic title.
SlideTitle_AlwaysTopic(t, k) == Get(t, "title", DEFAULT_TITLE)

\* generate_carousel, line 80
SlideTitle(t, k) ==
  IF k = 1 THEN Get(t, "title", DEFAULT_TITLE) ELSE "Slide " \o ToString(k)

\* Variant: the badge goes to the first slide instead of the last.
SlideCta_First(k, n) == IF k = 1 THEN CTA_TEXT ELSE ""

\* generate_carousel, line 82
SlideCta(k, n) == IF k = n THEN CTA_TEXT ELSE ""

\* Variant: file names numbered from zero.
OutPath_ZeroBased(outdir, k) == Join(outdir, SlideName(k - 1))

\* generate_carousel, line 83
OutPath(outdir, k) == Join(outdir, SlideName(k))

\* render_slide, lines 40-69: the composed raster.  The canvas and the fixed
\* boxes are as in the code; the badge exists only for a non-empty cta; the
\* glyphs of the wrapped title and body are not part of the model, nor is
\* the font find_font settles on.  The footer's bullet is written "-".
RenderSlide(title, body, cta, slide_num) ==
  [ size     |-> SLIDE_SIZE,
    header   |-> <<0, 0, SLIDE_SIZE[1], header_h>>,
    body_box |-> <<padding, header_h + 30, SLIDE_SIZE[1] - padding, SLIDE_SIZE[2] - 160>>,
    badge    |-> IF cta # "" THEN <<cta>> ELSE <<>>,
    footer   |-> "AI for MSMEs - Slide " \o ToString(slide_num) ]

\* ' '.join(tags)
RECURSIVE JoinTags(_)
JoinTags(tags) ==
  IF Len(tags) = 0 THEN ""
  ELSE IF Len(tags) = 1 THEN tags[1]
  ELSE tags[1] \o " " \o JoinTags(Tail(tags))

\* Variant: the short caption falls back to the empty string too.
compose_captions_NoFallback(t) ==
  << Get(t, "title", "") \o "\n\n" \o Get(t, "long_caption", "") \o "\n\n"
        \o JoinTags(Get(t, "hashtags", <<>>)),
     Get(t, "short_caption", "") \o "\n\n"
        \o JoinTags(Get(t, "hashtags", <<>>)) >>

\* compose_captions, lines 102-105: <<li, insta>>
compose_captions(t) ==
  << Get(t, "title", "") \o "\n\n" \o Get(t, "long_caption", "") \o "\n\n"
        \o JoinTags(Get(t, "hashtags", <<>>)),
     Get(t, "short_caption", Get(t, "title", "")) \o "\n\n"
        \o JoinTags(Get(t, "hashtags", <<>>)) >>

\* Variant: only "is not None" is tested, so an empty value passes.
EmailConfigured_NotNone(user, app_password, recipient) ==
  Len(user) = 1 /\ Len(app_password) = 1 /\ Len(recipient) = 1

\* main, line 135: the three variables are all set and non-empty
EmailConfigured(user, app_password, recipient) ==
  Truthy(user) /\ Truthy(app_password) /\ Truthy(recipient)

\* Variant: a missing file yields a built-in topic instead of an error.
load_topics_Default(f) ==
  IF f.kind = "missing" THEN
    [ raises |-> "", value |-> << [title |-> "T", slides |-> SlideList(1)] >> ]
  ELSE IF f.kind = "malformed" THEN
    [ raises |-> "load_topics:JSONDecodeError", value |-> <<>> ]
  ELSE
    [ raises |-> "", value |-> f.data ]

\* load_topics, lines 91-100: what it raises ("" if nothing) and returns
load_topics(f) ==
  IF f.kind = "missing" THEN
    [ raises |-> "load_topics:FileNotFoundError", value |-> <<>> ]
  ELSE IF f.kind = "malformed" THEN
    [ raises |-> "load_topics:JSONDecodeError", value |-> <<>> ]
  ELSE
    [ raises |-> "", value |-> f.data ]

\* Variant: the call is wrapped in a try that swallows the exception.
LoopContinues_Swallow(outcome) == TRUE

\* generate_carousel, lines 84-85: render_slide is called outside any try,
\* so the loop goes on only when it returned.
LoopContinues(outcome) == outcome = "ok"

\* Variant: the handler logs and falls through to a normal exit.
ExceptHandler_Swallow(e) == 0

\* __main__, lines 149-151: except Exception -> sys.exit(1)
ExceptHandler(e) == 1

\* Variant: the archive is rooted at a directory without the slides.
ArchiveOf_WrongRoot(fsfiles, outdir) == [ n \in {} |-> <<>> ]

\* shutil.make_archive(zip_base, 'zip', outdir): every file below outdir,
\* under its name relative to outdir.
ArchiveOf(fsfiles, outdir) ==
  LET inside == { p \in DOMAIN fsfiles : Parent(p) = outdir }
  IN  [ n \in { Basename(p) : p \in inside } |->
          fsfiles[CHOOSE p \in inside : Basename(p) = n] ]

(* ------------------------------ state -------------------------------- *)
NoDisk == [ dirs |-> {}, files |-> EmptyDict, zips |-> EmptyDict ]
NoEnv  == << <<>>, <<>>, <<>> >>

Init ==
  /\ date = 1
  /\ runs = 0
  /\ pc = "idle"
  /\ sendFlag = FALSE
  /\ topics = <<>>
  /\ idx = 0
  /\ topic = EmptyDict
  /\ today = 0
  /\ slides = <<>>
  /\ i = 0
  /\ files = <<>>
  /\ calls = <<>>
  /\ captions = <<>>
  /\ disk = NoDisk
  /\ log = <<>>
  /\ exitCode = -1
  /\ error = ""
  /\ input = ""
  /\ env = NoEnv
  /\ lastSel = <<0, 0, 0>>

\* An exception leaves main and reaches the handler of __main__.
Raise(e) ==
  /\ pc' = "exited"
  /\ error' = e
  /\ exitCode' = ExceptHandler(e)

\* main returns and the script ends.
Return ==
  /\ pc' = "exited"
  /\ exitCode' = 0
  /\ UNCHANGED error

\* The clock: midnight passes.
Tick ==
  /\ date < MaxDay
  /\ date' = date + 1
  /\ UNCHANGED << runs, pc, sendFlag, topics, idx, topic, today, slides, i,
                  files, calls, captions, disk, log, exitCode, error, input,
                  env, lastSel >>

\* python main.py [--send-email]: a new process, fresh locals.  The flag is
\* fixed by the command line but read only at line 131, where it is drawn.
StartRun ==
  /\ pc \in {"idle", "exited"}
  /\ runs < MaxRuns
  /\ runs' = runs + 1
  /\ sendFlag' = FALSE
  /\ pc' = "load"
  /\ topics' = <<>> /\ idx' = 0 /\ topic' = EmptyDict /\ today' = 0
  /\ slides' = <<>> /\ i' = 0 /\ files' = <<>> /\ calls' = <<>>
  /\ captions' = <<>> /\ log' = <<>> /\ exitCode' = -1 /\ error' = ""
  /\ input' = "" /\ env' = NoEnv
  /\ UNCHANGED << date, disk, lastSel >>

\* main, line 122
LoadTopics ==
  /\ pc = "load"
  /\ \E f \in FileStates :
       /\ input' = f.kind
       /\ IF load_topics(f).raises # "" THEN
            /\ Raise(load_topics(f).raises)
            /\ UNCHANGED topics
          ELSE
            /\ topics' = load_topics(f).value
            /\ pc' = "select"
            /\ UNCHANGED << error, exitCode >>
  /\ UNCHANGED << date, runs, sendFlag, idx, topic, today, slides, i, files,
                  calls, captions, disk, log, env, lastSel >>

\* main, lines 123-124.  topics is not read after line 124: the model
\* forgets the list once the topic is taken from it.
SelectTopic ==
  /\ pc = "select"
  /\ IF Len(topics) = 0 THEN
       /\ Raise("main:ZeroDivisionError")
       /\ UNCHANGED << idx, topic, lastSel >>
     ELSE
       /\ idx' = SelectIndex(date, Len(topics))
       /\ topic' = topics[idx' + 1]
       /\ lastSel' = <<date, Len(topics), idx'>>
       /\ pc' = "generate"
       /\ UNCHANGED << error, exitCode >>
  /\ topics' = <<>>
  /\ UNCHANGED << date, runs, sendFlag, today, slides, i, files,
                  calls, captions, disk, log, input, env >>

\* generate_carousel, lines 74-78
GenerateBegin ==
  /\ pc = "generate"
  /\ today' = date
  /\ \E ok \in BOOLEAN :
       IF ok THEN
         /\ disk' = [disk EXCEPT !.dirs = @ \cup {OutDirOf(date)}]
         /\ log' = Append(log, Event("makedirs", OutDirOf(date)))
         /\ slides' = Get(topic, "slides", <<>>)
         /\ i' = 1
         /\ files' = <<>>
         /\ pc' = "loop"
         /\ UNCHANGED << error, exitCode >>
       ELSE
         /\ Raise("makedirs:OSError")
         /\ UNCHANGED << disk, log, slides, i, files >>
  /\ UNCHANGED << date, runs, sendFlag, topics, idx, topic, calls, captions,
                  input, env, lastSel >>

\* generate_carousel, lines 79-85: one pass of the loop, render_slide included.
\* render_slide returns, or a drawing call raises before anything is written,
\* or img.save raises after it opened the file and leaves it truncated.
RenderStep ==
  /\ pc = "loop"
  /\ i <= Len(slides)
  /\ LET title    == SlideTitle(topic, i)
         body     == slides[i]
         cta      == SlideCta(i, Len(slides))
         out_path == OutPath(OutDirOf(today), i)
         image    == RenderSlide(title, body, cta, i)
     IN
       \E outcome \in {"ok", "draw_error", "save_error"} :
         /\ calls' = Append(calls, [ title |-> title, body |-> body, cta |-> cta,
                                     slide_num |-> i, out_path |-> out_path,
                                     outcome |-> outcome ])
         /\ disk' = IF outcome = "ok"
                      THEN [disk EXCEPT !.files = (out_path :> <<image>>) @@ @]
                    ELSE IF outcome = "save_error"
                      THEN [disk EXCEPT !.files = (out_path :> <<>>) @@ @]
                    ELSE disk
         /\ IF outcome = "ok" THEN
              /\ log' = Append(log, Event("save", out_path))
              /\ files' = Append(files, out_path)
            ELSE
              UNCHANGED << log, files >>
         /\ IF LoopContinues(outcome) THEN
              /\ i' = i + 1
              /\ UNCHANGED << pc, error, exitCode >>
            ELSE
              /\ Raise("render_slide:Exception")
              /\ UNCHANGED i
  /\ UNCHANGED << date, runs, sendFlag, topics, idx, topic, today, slides,
                  captions, input, env, lastSel >>

\* generate_carousel, lines 87-89
Archive ==
  /\ pc = "loop"
  /\ i > Len(slides)
  /\ \E ok \in BOOLEAN :
       IF ok THEN
         /\ disk' = [disk EXCEPT !.zips =
                       (ZipPathOf(today) :> ArchiveOf(disk.files, OutDirOf(today))) @@ @]
         /\ log' = Append(log, Event("make_archive", ZipPathOf(today)))
         /\ pc' = "compose"
         /\ UNCHANGED << error, exitCode >>
       ELSE
         /\ Raise("make_archive:OSError")
         /\ UNCHANGED << disk, log >>
  /\ UNCHANGED << date, runs, sendFlag, topics, idx, topic, today, slides, i,
                  files, calls, captions, input, env, lastSel >>

\* main, lines 126-130
Compose ==
  /\ pc = "compose"
  /\ captions' = Append(captions, compose_captions(topic))
  /\ pc' = "email"
  /\ UNCHANGED << date, runs, sendFlag, topics, idx, topic, today, slides, i,
                  files, calls, disk, log, exitCode, error, input, env, lastSel >>

\* send_email, lines 107-119: the events it causes, in order.  Every
\* attachment is read, then one connection is opened; "sent" marks the
\* return of send_message.
SendEmailLog(attachments, outcome) ==
  [ k \in 1..Len(attachments) |-> Event("open", attachments[k]) ]
  \o << Event("connect", <<>>) >>
  \o (IF outcome = "connect_error" THEN <<>> ELSE << Event("login", <<>>) >>)
  \o (IF outcome \in {"ok", "send_error"} THEN << Event("send_message", <<>>) >> ELSE <<>>)
  \o (IF outcome = "ok" THEN << Event("sent", <<>>) >> ELSE <<>>)

\* main, lines 131-141, and the return to __main__
EmailStep ==
  /\ pc = "email"
  /\ \E flag \in BOOLEAN :
       /\ sendFlag' = flag
       /\ IF ~flag THEN
            /\ Return
            /\ UNCHANGED << log, env >>
          ELSE
            \E user \in EnvVals, app_password \in EnvVals, recipient \in EnvVals :
              /\ env' = <<user, app_password, recipient>>
              /\ IF ~EmailConfigured(user, app_password, recipient) THEN
                   /\ log' = Append(log, Event("environ", <<>>))
                   /\ Raise("main:EnvironmentError")
                 ELSE
                   \E outcome \in {"ok", "connect_error", "login_error", "send_error"} :
                     /\ log' = Append(log, Event("environ", <<>>))
                                 \o SendEmailLog(files, outcome)
                     /\ IF outcome = "ok" THEN Return
                        ELSE Raise("send_email:SMTPException")
  /\ UNCHANGED << date, runs, topics, idx, topic, today, slides, i,
                  files, calls, captions, disk, input, lastSel >>

Next ==
  \/ Tick
  \/ StartRun
  \/ LoadTopics
  \/ SelectTopic
  \/ GenerateBegin
  \/ RenderStep
  \/ Archive
  \/ Compose
  \/ EmailStep

Spec == Init /\ [][Next]_vars

(* -------------------- caption specification -------------------------- *)
\* compose_captions applied, repeatedly, to one topic drawn from every
\* combination of present and absent keys.
Tags == {"#ai", "#msme"}
TagLists == UNION { [1..n -> Tags] : n \in 0..MaxTags }
CaptionKeys == {"title", "short_caption", "long_caption", "hashtags"}
FullTopics ==
  [ title : Titles, short_caption : {"short"}, long_caption : {"long"},
    hashtags : TagLists ]
CaptionTopics ==
  { [k \in K |-> full[k]] : full \in FullTopics, K \in SUBSET CaptionKeys }

CaptionInit ==
  /\ date = 1
  /\ runs = 0
  /\ pc = "captions"
  /\ sendFlag = FALSE
  /\ topics = <<>>
  /\ idx = 0
  /\ topic \in CaptionTopics
  /\ today = 0
  /\ slides = <<>>
  /\ i = 0
  /\ files = <<>>
  /\ calls = <<>>
  /\ captions = <<>>
  /\ disk = NoDisk
  /\ log = <<>>
  /\ exitCode = -1
  /\ error = ""
  /\ input = ""
  /\ env = NoEnv
  /\ lastSel = <<0, 0, 0>>

ComposeCall ==
  /\ pc = "captions"
  /\ Len(captions) < MaxCompose
  /\ captions' = Append(captions, compose_captions(topic))
  /\ UNCHANGED << date, runs, pc, sendFlag, topics, idx, topic, today, slides,
                  i, files, calls, disk, log, exitCode, error, input, env,
                  lastSel >>

CaptionNext == ComposeCall

CaptionSpec == CaptionInit /\ [][CaptionNext]_vars

(* ============================ properties ============================== *)
\* generate_carousel has returned in this run.
GenReturned == pc \in {"compose", "email"} \/ (pc = "exited" /\ Did("make_archive"))
\* The slide texts of the selected topic.
TopicSlides == IF "slides" \in DOMAIN topic THEN topic.slides ELSE <<>>
Saves == SelectSeq(log, LAMBDA e : e.op = "save")

\* C1: after a successful generate_carousel on a topic with K slide texts the
\* renderer was called exactly K times, call k for slide k writing
\* slide_k.png, the files were saved in that order, the returned list is
\* those K paths in order, and every image has the 1080x1080 canvas.
C1_KFilesInOrder ==
  GenReturned =>
    LET K == Len(TopicSlides) IN
      /\ Len(calls) = K
      /\ Len(files) = K
      /\ \A k \in 1..K :
           /\ calls[k].slide_num = k
           /\ Basename(calls[k].out_path) = "slide_" \o ToString(k) \o ".png"
           /\ Parent(calls[k].out_path) = <<"output", "carousel_" \o Iso(today)>>
           /\ files[k] = calls[k].out_path
           /\ files[k] \in DOMAIN disk.files
           /\ Len(disk.files[files[k]]) = 1
           /\ disk.files[files[k]][1].size = <<1080, 1080>>
      /\ Len(Saves) = K
      /\ \A k \in 1..K : Saves[k].arg = files[k]

C1_Witness ==
  /\ GenReturned
  /\ Len(TopicSlides) = 2
  /\ Len(files) = 2
  /\ Basename(files[2]) = "slide_2.png"

\* C2: in a run on a topic with K >= 1 slide texts the renderer gets a
\* non-empty CTA for slide k exactly when k = K, and a written slide carries
\* the badge exactly when it is slide K.
C2_CtaOnlyOnLast ==
  /\ \A k \in 1..Len(calls) : (calls[k].cta # "") <=> (k = Len(TopicSlides))
  /\ \A k \in 1..Len(files) :
       /\ Len(disk.files[files[k]]) = 1
       /\ (disk.files[files[k]][1].badge # <<>>) <=> (k = Len(TopicSlides))

C2_Witness ==
  /\ pc = "compose"
  /\ Len(calls) = 2
  /\ calls[1].cta = ""
  /\ calls[2].cta # ""
  /\ disk.files[files[1]][1].badge = <<>>
  /\ disk.files[files[2]][1].badge # <<>>

\* C3: for a topic with a title, slide 1 is rendered with the topic's title,
\* every slide k >= 2 with the text "Slide k", and slide k's body is the
\* k-th slide text of the topic.
C3_TitlesAndBodies ==
  \A k \in 1..Len(calls) :
    /\ calls[k].body = TopicSlides[k]
    /\ (k = 1 /\ "title" \in DOMAIN topic) => calls[k].title = topic.title
    /\ k >= 2 => calls[k].title = "Slide " \o ToString(k)

C3_Witness ==
  /\ Len(calls) = 2
  /\ "title" \in DOMAIN topic
  /\ calls[1].title = "T"
  /\ calls[2].title = "Slide 2"
  /\ calls[2].body = "text2"

\* The parts a caption is assembled from.
TitleOrEmpty == IF "title" \in DOMAIN topic THEN topic.title ELSE ""
TagLine == JoinTags(IF "hashtags" \in DOMAIN topic THEN topic.hashtags ELSE <<>>)

\* C4 as stated: an absent short_caption is replaced by the title in the
\* short-form caption and an absent long_caption is replaced by the title in
\* the long-form caption; repeated composition gives the same output.
C4_BothFallBackToTitle ==
  \A k \in 1..Len(captions) :
    /\ captions[k] = captions[1]
    /\ "short_caption" \notin DOMAIN topic =>
         captions[k][2] = TitleOrEmpty \o "\n\n" \o TagLine
    /\ "long_caption" \notin DOMAIN topic =>
         captions[k][1] = TitleOrEmpty \o "\n\n" \o TitleOrEmpty \o "\n\n" \o TagLine

\* C4 amended: an absent short_caption is replaced by the title; an absent
\* long_caption is replaced by the empty string (the long-form caption still
\* opens with the title); a present field is used as it is; repeated
\* composition gives the same output.
C4_ShortFallsBackLongEmpty ==
  \A k \in 1..Len(captions) :
    /\ captions[k] = captions[1]
    /\ captions[k][2] =
         (IF "short_caption" \in DOMAIN topic THEN topic.short_caption
          ELSE TitleOrEmpty) \o "\n\n" \o TagLine
    /\ captions[k][1] =
         TitleOrEmpty \o "\n\n"
         \o (IF "long_caption" \in DOMAIN topic THEN topic.long_caption ELSE "")
         \o "\n\n" \o TagLine

C4_Witness ==
  /\ pc = "captions"
  /\ Len(captions) = 2
  /\ DOMAIN topic = {"title", "hashtags"}
  /\ Len(topic.hashtags) = 2
  /\ captions[2][2] = "T\n\n" \o TagLine
  /\ captions[2][1] = "T\n\n\n\n" \o TagLine

\* C5: at every selection the index is the day ordinal modulo the number of
\* topics, it indexes the list, the topic taken is the one at that index, and
\* a selection on the same day over a list of the same length as the
\* previous selection yields the same index.
C5_SelectionStable ==
  [][ (pc = "select" /\ pc' = "generate") =>
        /\ idx' = date % Len(topics)
        /\ idx' \in 0..(Len(topics) - 1)
        /\ topic' = topics[idx' + 1]
        /\ lastSel' = <<date, Len(topics), idx'>>
        /\ (lastSel[1] = date /\ lastSel[2] = Len(topics)) => idx' = lastSel[3]
    ]_vars

\* A second run about to select on the day and over a list of the length of
\* the first run's selection.
C5_Witness ==
  /\ pc = "select"
  /\ runs = 2
  /\ Len(topics) = 2
  /\ lastSel[1] = date
  /\ lastSel[2] = Len(topics)
  /\ lastSel[3] = 1

\* C6: when topics.json is missing or is not valid JSON the run has ended
\* with nothing done: no directory made, no renderer call, no file saved, no
\* archive, no caption, no email step.
C6_NoOutputOnBadInput ==
  input \in {"missing", "malformed"} =>
    /\ pc = "exited"
    /\ error \in {"load_topics:FileNotFoundError", "load_topics:JSONDecodeError"}
    /\ log = <<>>
    /\ calls = <<>>
    /\ files = <<>>
    /\ captions = <<>>

C6_Witness ==
  /\ input = "missing"
  /\ pc = "exited"
  /\ runs = 2
  /\ disk.dirs # {}

\* C7: with email requested and one of the three variables unset or empty,
\* the run ends with an error and has neither read an attachment nor opened
\* a connection; with email not requested the environment is not consulted
\* and no connection is opened.
EnvIncomplete == \E k \in 1..3 : env[k] = <<>> \/ env[k] = <<"">>
C7_NoNetworkWithoutConfig ==
  /\ (sendFlag /\ EnvIncomplete) =>
       /\ pc = "exited"
       /\ error = "main:EnvironmentError"
       /\ ~Did("open") /\ ~Did("connect") /\ ~Did("login") /\ ~Did("send_message")
  /\ ~sendFlag =>
       /\ ~Did("environ") /\ ~Did("open") /\ ~Did("connect")
       /\ env = << <<>>, <<>>, <<>> >>

C7_Witness ==
  /\ sendFlag
  /\ env = << <<"v">>, <<"">>, <<"v">> >>
  /\ Len(files) = 2
  /\ error = "main:EnvironmentError"

\* C8: a finished run has exit code 0 exactly when every stage completed
\* (topics loaded, topic selected, every slide rendered, archive made,
\* captions composed, and the mail sent if requested) and exit code 1 exactly
\* when a stage raised; no stage ran twice.
RunSucceeded ==
  /\ input = "json"
  /\ Did("makedirs")
  /\ Len(files) = Len(TopicSlides)
  /\ \A k \in 1..Len(calls) : calls[k].outcome = "ok"
  /\ Did("make_archive")
  /\ Len(captions) = 1
  /\ sendFlag => Did("sent")
C8_ExitCode ==
  /\ pc = "exited" =>
       /\ exitCode \in {0, 1}
       /\ (exitCode = 0) <=> RunSucceeded
       /\ (exitCode = 1) <=> (error # "")
  /\ pc # "exited" => exitCode = -1
  /\ Count("makedirs") <= 1 /\ Count("make_archive") <= 1 /\ Count("connect") <= 1
  /\ \A j, k \in 1..Len(calls) : calls[j].slide_num = calls[k].slide_num => j = k

C8_Witness ==
  /\ pc = "exited"
  /\ exitCode = 1
  /\ error = "send_email:SMTPException"
  /\ Did("login")
  /\ ~Did("sent")

\* C9: when the rendering of slide j fails, it is the last renderer call of
\* the run, the run has ended with exit code 1, the files of slides 1..j-1
\* are on disk as they were rendered, and the run made no archive and
\* started no email.
C9_RenderFailureAborts ==
  \A j \in 1..Len(calls) :
    calls[j].outcome # "ok" =>
      /\ j = Len(calls)
      /\ pc = "exited"
      /\ exitCode = 1
      /\ Len(files) = j - 1
      /\ \A k \in 1..(j - 1) :
           /\ files[k] = calls[k].out_path
           /\ files[k] \in DOMAIN disk.files
           /\ disk.files[files[k]] =
                << RenderSlide(calls[k].title, calls[k].body, calls[k].cta, k) >>
      /\ ~Did("make_archive")
      /\ ~Did("environ") /\ ~Did("open") /\ ~Did("connect")

C9_Witness ==
  /\ pc = "exited"
  /\ Len(calls) = 2
  /\ calls[2].outcome = "save_error"
  /\ Len(files) = 1
  /\ files[1] \in DOMAIN disk.files
  /\ disk.files[calls[2].out_path] = <<>>

\* The files now in the output directory of this run, by name.
InOutDir == { p \in DOMAIN disk.files : Parent(p) = OutDirOf(today) }
ArchiveMade == Did("make_archive") /\ pc \in {"compose", "email", "exited"}
ArchiveAfterSlides ==
  /\ Len(files) = Len(TopicSlides)
  /\ \A a, b \in 1..Len(log) :
       (log[a].op = "save" /\ log[b].op = "make_archive") => a < b
  /\ ZipPathOf(today) \in DOMAIN disk.zips

\* C10 as stated: the archive is made after all slides of the run and by
\* every successful generate_carousel, and for an empty slide list it is
\* empty, also on a rerun into a directory an earlier run populated.
C10_EmptyListEmptyArchive ==
  /\ GenReturned => ArchiveMade
  /\ ArchiveMade =>
       /\ ArchiveAfterSlides
       /\ Len(TopicSlides) = 0 =>
            /\ files = <<>>
            /\ DOMAIN disk.zips[ZipPathOf(today)] = {}

\* C10 amended: the archive is made after all slides of the run and by every
\* successful generate_carousel; it holds exactly the files that are in the
\* output directory, those left by earlier runs included, so for an empty
\* slide list it is empty only if the directory held no file.
C10_ArchiveIsDirectory ==
  /\ GenReturned => ArchiveMade
  /\ ArchiveMade =>
       /\ ArchiveAfterSlides
       /\ DOMAIN disk.zips[ZipPathOf(today)] = { Basename(p) : p \in InOutDir }
       /\ \A p \in InOutDir : disk.zips[ZipPathOf(today)][Basename(p)] = disk.files[p]
       /\ Len(TopicSlides) = 0 => files = <<>>

\* A run on an empty slide list whose archive holds an earlier run's slide.
C10_Witness ==
  /\ ArchiveMade
  /\ runs = 2
  /\ Len(TopicSlides) = 0
  /\ files = <<>>
  /\ "slide_1.png" \in DOMAIN disk.zips[ZipPathOf(today)]
====
